---- MODULE Spec2Model ----
(***************************************************************************)
(* Model of the feed publisher of leetcode-discuss-feed: token generation, *)
(* path resolution, the atomic JSON writer and the manifest publisher      *)
(* (scripts/renderer.py, scripts/utils.py, scripts/config_loader.py,       *)
(* scripts/feed.py), the paging loop and the manifest fallback of fetch    *)
(* (scripts/fetcher.py) and the inputs of the page.  The filesystem is the *)
(* shared state; a run of the pipeline is a process that walks through     *)
(* write_json_and_manifest one filesystem call at a time and may be        *)
(* interrupted between any two calls.  Spec has the runs of one process    *)
(* with kills, SpecFail the same runs with calls that raise, SpecConc two  *)
(* processes at once, SpecFetch the runs with their fetch, SpecPaging the  *)
(* same with a loop that goes on, SpecPage the runs with the summaries,    *)
(* SpecSummary the runs followed by summarize.py (scripts/summarize.py),   *)
(* SpecToken the token generation alone.                                   *)
(***************************************************************************)
EXTENDS Integers, Sequences, FiniteSets, TLC

\* ------------------------------------------------------------------ bounds
MaxRuns == 2          \* runs of the pipeline started in one behaviour
MaxTicks == 2         \* times the clock advances in one behaviour
MaxRand == 2          \* distinct outcomes of the secure random source
SlotsPerDay == 3      \* the clock counts slots of 24 / SlotsPerDay hours

\* ------------------------------------------------- constants of the program
TokenLen == 16        \* range(16) and hexdigest()[:16]
DigestLen == 64       \* length of a SHA-256 hex digest

\* the behaviour starts in the second-to-last slot of day 1 (UTC)
FirstNow == 2 * SlotsPerDay - 2
MaxNow == FirstNow + MaxTicks

\* string.ascii_lowercase + string.digits
Alphabet ==
  << "a","b","c","d","e","f","g","h","i","j","k","l","m",
     "n","o","p","q","r","s","t","u","v","w","x","y","z",
     "0","1","2","3","4","5","6","7","8","9" >>

\* the digits hexdigest() draws from
HexDigits ==
  << "0","1","2","3","4","5","6","7","8","9","a","b","c","d","e","f" >>

\* the processes that can run the pipeline
Procs == {1, 2}

\* Runs that do not overlap are the runs of one process, one after another.
SeqProcs == {1}

\* values of JSON_SALT
Salts == {"", "abc123"}

\* offsets of the host's local time zone from UTC, in clock slots
\* (UTC, and one slot east of it: UTC+8 with slots of 8 hours)
TzOffsets == {0, 1}

\* What fetcher.fetch() hands to a run, an item being known by its url: no
\* item at all, or two items that arrived in an order that is not the
\* sorted one.
ItemLists == { << >>, << "u2", "u1" >> }

\* ------------------------------------------------------------------- state
VARIABLES
  cfg,        \* Config: json_randomize, json_daily_stable, json_salt, tz
  now,        \* the clock, in slots since the epoch (UTC)
  dirs,       \* directories that exist
  fs,         \* files: path -> [data, written]; a path outside DOMAIN fs is absent
  pc,         \* position of each process in main / write_json_and_manifest
  fetch,      \* the locals of Fetcher.fetch, and the start of each request
  items,      \* the items argument of write_json_and_manifest
  json_abs,   \* local json_abs of write_json_and_manifest
  wpath,      \* argument path of the running write_json_atomic
  wpayload,   \* argument payload of the running write_json_atomic
  phase,      \* which call of write_json_atomic is running: "doc" / "manifest"
  runs,       \* number of runs started, of the pipeline or of summarize.py
  tokenLog,   \* history: every token generation with its dates and branch
  lastToken,  \* history: the most recent token generation of each process
  published,  \* history: the items of the run that last replaced the manifest
  stale,      \* history: the document under the manifest was replaced since
  wfile,      \* the temporary file each process holds open: where, how far
  summary,    \* what summarize.py left: summary.md, data/summary.json
  html,       \* the page at cfg.output_html
  rendered,   \* history: what the page was rendered from, and for which path
  trace,      \* history of each process's run: calls made, files found, error
  smz         \* the locals of main of summarize.py, and what its run did

vars == << cfg, now, dirs, fs, pc, fetch, items, json_abs, wpath, wpayload, phase,
           runs, tokenLog, lastToken, published, stale, wfile, summary, html,
           rendered, trace, smz >>

\* ------------------------------------------------------------------- paths
\* A path is a sequence of segments, a segment a sequence of pieces; the
\* pieces of a file name that start with "." are its suffixes.
project_root == << <<"root">> >>
DataDir == project_root \o << <<"data">> >>

\* cfg.manifest_path: root / "data/manifest.json"
manifest_path == DataDir \o << <<"manifest", ".json">> >>

Parent(path) == SubSeq(path, 1, Len(path) - 1)
Name(path) == path[Len(path)]

\* a writer without a temporary file: the text is written into the target
TmpInPlace(path) == path

\* path.with_suffix(path.suffix + ".tmp")
TmpPath(path) == Parent(path) \o << Append(Name(path), ".tmp") >>

IsTmp(path) == Name(path)[Len(Name(path))] = ".tmp"

\* json_abs.relative_to(project_root).as_posix(): the segments below the root
RelativeTo(path) == SubSeq(path, Len(project_root) + 1, Len(path))

\* project_root / json_path
Resolve(rel) == project_root \o rel

\* parents=True: the directory and every missing ancestor
Ancestors(dir) == { SubSeq(dir, 1, k) : k \in 1..Len(dir) }

\* ------------------------------------------------------------------- clock
\* datetime.now(timezone.utc).isoformat(timespec="seconds")
now_iso_utc == now

\* the UTC calendar date of the clock
UtcDate == now \div SlotsPerDay

\* date.today(): the calendar date in the host's local time zone
Today == (now + cfg.tz) \div SlotsPerDay

\* ------------------------------------------------------------------ tokens
SaltCode(salt) == IF salt = "" THEN 0 ELSE 1

\* a digest of the salt alone
Sha256HexNoDate(d, salt) ==
  [i \in 1..DigestLen |-> HexDigits[((SaltCode(salt) * 7 + i) % 16) + 1]]

\* hashlib.sha256(f"{date}::{salt}".encode("utf-8")).hexdigest(): a stand-in
\* that is injective in (date, salt) on the dates of the behaviour, as
\* SHA-256 is taken to be collision-free
Sha256Hex(d, salt) ==
  [i \in 1..DigestLen |->
     HexDigits[((d * (i + 1) + SaltCode(salt) * 7 + i) % 16) + 1]]

\* "".join(secrets.choice(alphabet) for _ in range(16)); r is the outcome
\* of the random source
RandomToken(r) ==
  [i \in 1..TokenLen |-> Alphabet[((r * i + 3 * r) % Len(Alphabet)) + 1]]

\* the digest without the [:16]
HashTokenLong(d, salt) == Sha256Hex(d, salt)

\* hexdigest()[:16]
HashToken(d, salt) == SubSeq(Sha256Hex(d, salt), 1, TokenLen)

\* a generator without the test of the salt
daily_token_hash_always(r) ==
  [token |-> HashToken(Today, cfg.json_salt), source |-> "hash"]

\* Renderer._daily_token; source records the branch taken
daily_token(r) ==
  IF cfg.json_salt = ""
  THEN [token |-> RandomToken(r), source |-> "random"]
  ELSE [token |-> HashToken(Today, cfg.json_salt), source |-> "hash"]

\* data/latest.json
LatestPath == DataDir \o << <<"latest", ".json">> >>

\* data/<token>/<token>.json
TokenPath(token) == DataDir \o << token, Append(token, ".json") >>

\* a resolver that generates one token for the directory and another for
\* the file name
compute_json_path_two_draws(r) ==
  IF ~cfg.json_randomize
  THEN [path |-> LatestPath, gen |-> << >>]
  ELSE LET g == daily_token(r)
           h == daily_token(r + 1)
       IN  [path |-> DataDir \o << g.token, Append(h.token, ".json") >>,
            gen |-> << g >>]

\* Renderer.compute_json_path; r is the outcome of the random source.
\* gen is the token generation it performed (none when the path is fixed).
compute_json_path(r) ==
  IF ~cfg.json_randomize
  THEN [path |-> LatestPath, gen |-> << >>]
  ELSE LET g == IF cfg.json_daily_stable THEN daily_token(r)
                ELSE daily_token(r)
       IN  [path |-> TokenPath(g.token), gen |-> << g >>]

\* -------------------------------------------------------------- filesystem
Exists(path) == path \in DOMAIN fs

\* How much of its JSON text a file holds: "none" right after open(.., "w")
\* created or truncated it, "part" while json.dump is writing, "all" once
\* the text is written and the file closed.
Complete(file) == file.written = "all"

\* the value of a payload variable outside write_json_atomic, and the
\* content of a part of a file that nothing was written to
NoPayload == [updated_at |-> 0]

\* what a reader of the path finds at this moment
NoFile == [data |-> NoPayload, written |-> "absent"]
Read(path) == IF Exists(path) THEN fs[path] ELSE NoFile

\* open(.., "w") leaves a file of length zero
EmptyFile == [data |-> NoPayload, written |-> "none"]

\* json.dump hands the text to the file in two parts.  The parts a file
\* holds, each known by the payload it was taken from.
ChunksOf(file) ==
  CASE file.written = "none" -> << NoPayload, NoPayload >>
    [] file.written = "part" -> << file.data, NoPayload >>
    [] file.written = "all" -> << file.data, file.data >>
    [] file.written = "torn" -> file.chunks

\* The file that holds these parts; it is torn when the second part follows
\* a gap or was taken from another payload than the first.
FileOf(chunks) ==
  IF chunks = << NoPayload, NoPayload >> THEN EmptyFile
  ELSE IF chunks[2] = NoPayload
       THEN [data |-> chunks[1], written |-> "part"]
  ELSE IF chunks[1] = chunks[2]
       THEN [data |-> chunks[1], written |-> "all"]
  ELSE [data |-> NoPayload, written |-> "torn", chunks |-> chunks]

\* f.write of part k of the payload at the position of the file object
WriteChunk(file, k, payload) == FileOf([ChunksOf(file) EXCEPT ![k] = payload])

\* no file object is open
NoHandle == [at |-> << >>, pos |-> 0]

\* the file of an open file object has lost its last name
Unlinked == << <<"(unlinked)">> >>

\* where the file of a file object is found after os.replace(src, dst)
HandleAfterReplace(h, src, dst) ==
  IF h = NoHandle THEN h
  ELSE IF h.at = src THEN [h EXCEPT !.at = dst]
  ELSE IF h.at = dst THEN [h EXCEPT !.at = Unlinked]
  ELSE h

\* a writer that clears the other token directories when it writes
PutRotating(f, path, file) ==
  LET kept == { q \in DOMAIN f : Parent(q) \in {DataDir, Parent(path)} }
  IN  [q \in kept \cup {path} |-> IF q = path THEN file ELSE f[q]]

Put(f, path, file) ==
  [q \in (DOMAIN f) \cup {path} |-> IF q = path THEN file ELSE f[q]]

Remove(f, path) == [q \in (DOMAIN f) \ {path} |-> f[q]]

\* a replace that starts to copy src over dst instead of renaming it
ReplaceByCopy(f, src, dst) ==
  Put(f, dst, [data |-> f[src].data, written |-> "none"])

\* a replace that removes src and leaves dst as it was
ReplaceLost(f, src, dst) == Remove(f, src)

\* os.replace(src, dst): dst takes the file of src and src disappears
Replace(f, src, dst) ==
  IF src = dst THEN f ELSE Remove(Put(f, dst, f[src]), src)

\* a document that carries the count but not the items
DocPayloadNoItems(its) ==
  [updated_at |-> now_iso_utc, count |-> Len(its), items |-> << >>]

\* a document at the fixed path that keeps the items of the document it
\* replaces
DocPayloadAppended(its) ==
  LET old == IF Exists(LatestPath) /\ Complete(fs[LatestPath])
             THEN fs[LatestPath].data.items ELSE << >>
  IN  [updated_at |-> now_iso_utc, count |-> Len(its), items |-> old \o its]

\* the payload write_json_and_manifest builds for the feed document
DocPayload(its) ==
  [updated_at |-> now_iso_utc, count |-> Len(its), items |-> its]

\* a manifest whose count is one too high
ManifestPayloadOffByOne(path, its) ==
  [updated_at |-> now_iso_utc, json_path |-> RelativeTo(path),
   count |-> Len(its) + 1]

\* a manifest that keeps the record of the manifest it replaces
ManifestPayloadWithHistory(path, its) ==
  [updated_at |-> now_iso_utc, json_path |-> RelativeTo(path),
   count |-> Len(its), previous |-> Read(manifest_path).data]

\* the payload write_json_and_manifest builds for the manifest
ManifestPayload(path, its) ==
  [updated_at |-> now_iso_utc, json_path |-> RelativeTo(path),
   count |-> Len(its)]

\* ------------------------------------------------------------------- fetch
\* the urls of the posts the search can return
Links == {"u1", "u2"}

\* One search result: its link, and whether the filters of fetch keep it
\* (the link matches allow_patterns, a keyword is found, a company is
\* detected).
SearchResult(link, kept) == [link |-> link, kept |-> kept]

\* data.get("items", []) of the responses a request can get
Pages ==
  { << >>,
    << SearchResult("u1", TRUE) >>,
    << SearchResult("u2", TRUE), SearchResult("u1", TRUE) >>,
    << SearchResult("u1", TRUE), SearchResult("u1", TRUE) >>,
    << SearchResult("u2", FALSE), SearchResult("u2", TRUE) >> }

\* values of query.max_results in settings.json
MaxResultsValues == {-1, 0, 1, 2}

\* fetch, lines 72-92: the results of a page that pass the three filters,
\* as items, in the order of the page
Accepted(page) ==
  LET kept == SelectSeq(page, LAMBDA res : res.kept)
  IN  [i \in 1..Len(kept) |-> kept[i].link]

\* the items of the sequence whose url is not among seen, the first of each
\* url only
RECURSIVE DedupFrom(_, _)
DedupFrom(its, seen) ==
  IF its = << >> THEN << >>
  ELSE IF Head(its) \in seen THEN DedupFrom(Tail(its), seen)
  ELSE << Head(its) >> \o DedupFrom(Tail(its), seen \cup {Head(its)})

\* a loop that keeps every item
DedupNone(its) == its

\* fetch, lines 101-107: seen, dedup = set(), []; for it in items: ...
Dedup(its) == DedupFrom(its, {})

\* the slice seq[:n] of Python
Slice(seq, n) ==
  IF n >= 0
  THEN SubSeq(seq, 1, IF n < Len(seq) THEN n ELSE Len(seq))
  ELSE SubSeq(seq, 1, IF Len(seq) + n > 0 THEN Len(seq) + n ELSE 0)

\* json.load of the file succeeds
Readable(path) == Exists(path) /\ Complete(fs[path])

\* a fallback that is taken after a failed request only
FetchResultNoEmptyCheck(its, max_results, cse_failed) ==
  LET result == Slice(Dedup(its), max_results)
  IN  IF ~cse_failed THEN result
      ELSE IF ~Readable(manifest_path) THEN << >>
      ELSE IF ~Readable(Resolve(fs[manifest_path].data.json_path))
           THEN << >>
      ELSE fs[Resolve(fs[manifest_path].data.json_path)].data.items

\* fetch, lines 101-126: what fetch returns once the loop is left: the
\* deduplicated and truncated items, or, when a request failed or nothing is
\* left, the items of the document the manifest names.
FetchResult(its, max_results, cse_failed) ==
  LET result == Slice(Dedup(its), max_results)
  IN  IF ~(cse_failed \/ result = << >>) THEN result
      ELSE IF ~Readable(manifest_path) THEN << >>
      ELSE IF "json_path" \notin DOMAIN fs[manifest_path].data THEN result
      ELSE IF fs[manifest_path].data.json_path = << >> THEN result
      ELSE IF ~Readable(Resolve(fs[manifest_path].data.json_path))
           THEN << >>
      ELSE IF "items" \notin
                DOMAIN fs[Resolve(fs[manifest_path].data.json_path)].data
           THEN << >>
      ELSE fs[Resolve(fs[manifest_path].data.json_path)].data.items

\* fetch is not running.  requests, zero and limit are history: the start of
\* each request, whether the last response reported no results at all, and
\* the max_results of the run that collected the returned items.
NoFetch ==
  [items |-> << >>, start |-> 0, cse_failed |-> FALSE, max_results |-> 0,
   requests |-> << >>, zero |-> FALSE, limit |-> 0]

\* -------------------------------------------------------------------- page
\* summarize.py has not run: no summary.md, no data/summary.json
NoSummary == [md |-> << >>, company_counts |-> << >>]

\* what summarize.py can have left for the page
Summaries ==
  { NoSummary, [md |-> <<"summary">>, company_counts |-> << <<"Google", 2>> >>] }

\* Renderer._company_counts: the items carry no company here, which counts
\* them all as one
company_counts(its) ==
  IF its = << >> THEN << >> ELSE << <<"Unknown", Len(its)>> >>

\* Renderer._render_stats_cards: the counts of data/summary.json, or those
\* of the items when there are none
render_stats_cards(its) ==
  IF summary.company_counts = << >>
  THEN [section |-> "trend-stats", counts |-> company_counts(its)]
  ELSE [section |-> "trend-cards", counts |-> summary.company_counts]

\* a page that carries a link to the feed document
build_html_with_link(p) ==
  [title |-> "page_title", time |-> now_iso_utc,
   stats |-> render_stats_cards(items[p]), cards |-> items[p],
   summary |-> summary.md, link |-> RelativeTo(json_abs[p])]

\* Renderer._build_html(items) as main calls it for process p: title, time
\* of rendering, trend stats, one card per item, and the text of summary.md
build_html(p) ==
  [title |-> "page_title", time |-> now_iso_utc,
   stats |-> render_stats_cards(items[p]), cards |-> items[p],
   summary |-> summary.md]

\* cfg.output_html has not been written
NoHtml == [title |-> ""]

\* nothing was rendered yet
NoRender == [items |-> << >>, clock |-> 0, json_abs |-> << >>]

\* ---------------------------------------------------------------- summarize
\* values of OPENAI_API_KEY: unset or empty, and set
ApiKeys == {"", "sk"}

\* What the attempt of render_openai_summary comes to: an exception (no
\* openai package, the request fails, ...), a report, or a reply without
\* content.
RemoteOutcomes == {"raises", "report", "empty"}

\* render_openai_summary: str(resp.choices[0].message.content or "")
render_openai_summary(outcome) ==
  IF outcome = "report" THEN << "report" >> ELSE << >>

\* build_trends: the count of each company; the items carry no company
\* here, which counts them all as "Unknown"
build_trends(its) ==
  IF its = << >> THEN << >> ELSE << <<"Unknown", Len(its)>> >>

\* render_rules_summary: the heading, the two trend sections when there are
\* items, and the first five items as samples
render_rules_summary(its) ==
  << "# Daily Interview Feed Summary" >>
    \o (IF build_trends(its) = << >> THEN << >>
        ELSE << "## Top Companies by Mentions", "## Trend by Company" >>)
    \o << "## Sample Questions" >> \o Slice(its, 5)

\* summarize.py is not running.  attempts, wrote and error are history: the
\* renderings tried in order, whether summary.md was written, and the step
\* that raised.
NoSummarize ==
  [pc |-> "idle", items |-> << >>, api_key |-> "", categories_ok |-> TRUE,
   summary |-> << >>, attempts |-> << >>, wrote |-> FALSE, error |-> "none"]

\* --------------------------------------------------------- history of a run
\* manifest, page: what the run found when it started; doc_calls,
\* manifest_calls: calls of write_json_atomic so far; error: the call that
\* raised
NoTrace ==
  [manifest |-> NoFile, page |-> NoHtml, doc_calls |-> 0,
   manifest_calls |-> 0, error |-> "none"]

\* --------------------------------------------------------------------- Init
\* the values of the settings and of the environment
Configs ==
  [json_randomize : BOOLEAN, json_daily_stable : BOOLEAN, json_salt : Salts,
   tz : TzOffsets]

\* the state after Config.load, for one of the configurations and one of the
\* summaries
SetUp(configs, summaries) ==
  /\ cfg \in configs
  /\ now = FirstNow
  /\ dirs = Ancestors(DataDir)       \* Config.load: manifest_path.parent.mkdir
  /\ fs = << >>
  /\ pc = [p \in Procs |-> "idle"]
  /\ fetch = [p \in Procs |-> NoFetch]
  /\ items = [p \in Procs |-> << >>]
  /\ json_abs = [p \in Procs |-> << >>]
  /\ wpath = [p \in Procs |-> << >>]
  /\ wpayload = [p \in Procs |-> NoPayload]
  /\ phase = [p \in Procs |-> "none"]
  /\ runs = 0
  /\ tokenLog = {}
  /\ lastToken = [p \in Procs |-> << >>]
  /\ published = << >>
  /\ stale = FALSE
  /\ wfile = [p \in Procs |-> NoHandle]
  /\ summary \in summaries
  /\ html = NoHtml
  /\ rendered = NoRender
  /\ trace = [p \in Procs |-> NoTrace]
  /\ smz = NoSummarize

\* One configuration for each way a run resolves its path: the fixed path,
\* a random token, and the salted hash of the date in each time zone.  (Both
\* values of json_daily_stable call the same generator, and the salt and the
\* zone are read for a salted token only.)
PublishConfigs ==
  { c \in Configs :
      /\ c.json_daily_stable
      /\ c.json_salt = "" => c.tz = 0
      /\ ~c.json_randomize => c.json_salt = "" }

Init == SetUp(PublishConfigs, {NoSummary})

\* every configuration
InitToken == SetUp(Configs, {NoSummary})

\* ------------------------------------------------------------------ actions
\* the process is about to read the clock (date.today(), now_iso_utc())
ReadsClock(p) == pc[p] \in {"compute", "manifest", "returned"}

\* The clock advances by one slot.  Only compute_json_path, the two payloads
\* and the page read it, and a tick commutes with every other step, so ticks
\* are taken right before a read.
Tick ==
  /\ now < MaxNow
  /\ \E p \in Procs : ReadsClock(p)
  /\ now' = now + 1
  /\ UNCHANGED << cfg, smz, fetch, dirs, fs, pc, items, json_abs, wpath, wpayload, phase,
                  runs, tokenLog, lastToken, published, stale, wfile,
                  summary, html, rendered, trace >>

\* main: items = fetcher.fetch(); renderer.write_json_and_manifest(items)
StartRun(p, its) ==
  /\ pc[p] = "idle"
  /\ runs < MaxRuns
  /\ runs' = runs + 1
  /\ items' = [items EXCEPT ![p] = its]
  /\ pc' = [pc EXCEPT ![p] = "compute"]
  /\ trace' = [trace EXCEPT ![p] = [NoTrace EXCEPT
                                      !.manifest = Read(manifest_path),
                                      !.page = html]]
  /\ UNCHANGED << cfg, smz, fetch, now, dirs, fs, json_abs, wpath, wpayload, phase,
                  tokenLog, lastToken, published, stale, wfile, summary,
                  html, rendered >>

\* main: Config.load() reads max_results, and fetcher.fetch() starts with
\* items = [], start = 1, cse_failed = False
StartFetch(p, max_results) ==
  /\ pc[p] = "idle"
  /\ runs < MaxRuns
  /\ runs' = runs + 1
  /\ fetch' = [fetch EXCEPT ![p] =
                 [items |-> << >>, start |-> 1, cse_failed |-> FALSE,
                  max_results |-> max_results, requests |-> << >>,
                  zero |-> FALSE, limit |-> 0]]
  /\ pc' = [pc EXCEPT ![p] = "f_loop"]
  /\ trace' = [trace EXCEPT ![p] = [NoTrace EXCEPT
                                      !.manifest = Read(manifest_path),
                                      !.page = html]]
  /\ UNCHANGED << cfg, smz, now, dirs, fs, items, json_abs, wpath, wpayload,
                  phase, tokenLog, lastToken, published, stale, wfile,
                  summary, html, rendered >>

\* a loop that goes one page further
LoopGoesOnEleven(p) ==
  /\ Len(fetch[p].items) < fetch[p].max_results
  /\ fetch[p].start <= 101

\* the condition of the while loop of fetch
LoopGoesOn(p) ==
  /\ Len(fetch[p].items) < fetch[p].max_results
  /\ fetch[p].start <= 91

\* fetch, one turn of the loop: the request self._cse(q, start) raises, or
\* answers with a page whose kept results are appended; then start += 10
\* and the two tests that break the loop.  zero: totalResults == "0".
Request(p, ok, page, zero) ==
  /\ pc[p] = "f_loop"
  /\ LoopGoesOn(p)
  /\ LET f == fetch[p]
         collected == f.items \o Accepted(page)
     IN  IF ~ok
         THEN /\ fetch' = [fetch EXCEPT ![p] =
                             [f EXCEPT !.cse_failed = TRUE,
                                       !.requests = Append(@, f.start)]]
              /\ pc' = [pc EXCEPT ![p] = "f_done"]
         ELSE /\ fetch' = [fetch EXCEPT ![p] =
                             [f EXCEPT !.items = collected,
                                       !.start = @ + 10,
                                       !.requests = Append(@, f.start),
                                       !.zero = zero]]
              /\ pc' = [pc EXCEPT ![p] =
                          IF Len(collected) >= f.max_results \/ zero
                          THEN "f_done" ELSE "f_loop"]
  /\ UNCHANGED << cfg, smz, now, dirs, fs, items, json_abs, wpath, wpayload,
                  phase, runs, tokenLog, lastToken, published, stale, wfile,
                  summary, html, rendered, trace >>

\* fetch: the condition of the while loop is false
LoopEnds(p) ==
  /\ pc[p] = "f_loop"
  /\ ~LoopGoesOn(p)
  /\ pc' = [pc EXCEPT ![p] = "f_done"]
  /\ UNCHANGED << cfg, smz, fetch, now, dirs, fs, items, json_abs, wpath,
                  wpayload, phase, runs, tokenLog, lastToken, published,
                  stale, wfile, summary, html, rendered, trace >>

\* fetch returns the items it has collected in this run
Fresh(p) ==
  /\ ~fetch[p].cse_failed
  /\ Slice(Dedup(fetch[p].items), fetch[p].max_results) # << >>

\* fetch, lines 101-126, and main: items = fetcher.fetch()
FetchReturn(p) ==
  /\ pc[p] = "f_done"
  /\ items' = [items EXCEPT ![p] =
                 FetchResult(fetch[p].items, fetch[p].max_results,
                             fetch[p].cse_failed)]
  /\ fetch' = [fetch EXCEPT ![p].limit =
                 IF Fresh(p) THEN fetch[p].max_results
                 ELSE IF published = << >> THEN 0
                 ELSE published[1].limit]
  /\ pc' = [pc EXCEPT ![p] = "compute"]
  /\ UNCHANGED << cfg, smz, now, dirs, fs, json_abs, wpath, wpayload,
                  phase, runs, tokenLog, lastToken, published, stale, wfile,
                  summary, html, rendered, trace >>

\* The outcomes the random source can have now.  Outcomes are numbered in
\* the order of their first appearance: a draw repeats an earlier outcome or
\* is the next new one.
Draws ==
  LET seen == { g.token : g \in { h \in tokenLog : h.source = "random" } }
  IN  1..(IF Cardinality(seen) < MaxRand THEN Cardinality(seen) + 1
          ELSE MaxRand)

\* write_json_and_manifest: json_abs = self.compute_json_path(), then the
\* arguments of the first write_json_atomic are evaluated
ComputePath(p, r) ==
  /\ pc[p] = "compute"
  /\ LET res == compute_json_path(r)
         log == { [token |-> res.gen[i].token, source |-> res.gen[i].source,
                   utc |-> UtcDate, today |-> Today] : i \in DOMAIN res.gen }
     IN  /\ json_abs' = [json_abs EXCEPT ![p] = res.path]
         /\ dirs' = dirs \cup Ancestors(Parent(res.path))
         /\ wpath' = [wpath EXCEPT ![p] = res.path]
         /\ tokenLog' = tokenLog \cup log
         /\ lastToken' = [lastToken EXCEPT ![p] = res.gen]
  /\ wpayload' = [wpayload EXCEPT ![p] = DocPayload(items[p])]
  /\ phase' = [phase EXCEPT ![p] = "doc"]
  /\ pc' = [pc EXCEPT ![p] = "w_mkdir"]
  /\ trace' = [trace EXCEPT ![p].doc_calls = @ + 1]
  /\ UNCHANGED << cfg, smz, fetch, now, fs, items, runs, published, stale, wfile,
                  summary, html, rendered >>

\* write_json_atomic: path.parent.mkdir(parents=True, exist_ok=True)
WMkdir(p) ==
  /\ pc[p] = "w_mkdir"
  /\ dirs' = dirs \cup Ancestors(Parent(wpath[p]))
  /\ pc' = [pc EXCEPT ![p] = "w_open"]
  /\ UNCHANGED << cfg, smz, fetch, now, fs, items, json_abs, wpath, wpayload, phase,
                  runs, tokenLog, lastToken, published, stale, wfile,
                  summary, html, rendered, trace >>

\* write_json_atomic: open(tmp, "w") creates the temporary file, or
\* truncates the file that has this name, and returns a file object at
\* position 0
WOpen(p) ==
  /\ pc[p] = "w_open"
  /\ fs' = Put(fs, TmpPath(wpath[p]), EmptyFile)
  /\ wfile' = [wfile EXCEPT ![p] = [at |-> TmpPath(wpath[p]), pos |-> 0]]
  /\ pc' = [pc EXCEPT ![p] = "w_write"]
  /\ UNCHANGED << cfg, smz, fetch, now, dirs, items, json_abs, wpath, wpayload, phase,
                  runs, tokenLog, lastToken, published, stale, summary,
                  html, rendered, trace >>

\* write_json_atomic: json.dump writes the next part of the text at the
\* position of the file object; the file is closed after the last part
WWrite(p) ==
  /\ pc[p] = "w_write"
  /\ LET h == wfile[p]
         k == h.pos + 1
     IN  /\ fs' = IF Exists(h.at)
                  THEN Put(fs, h.at, WriteChunk(fs[h.at], k, wpayload[p]))
                  ELSE fs
         /\ wfile' = [wfile EXCEPT ![p] = IF k = 2 THEN NoHandle
                                          ELSE [h EXCEPT !.pos = k]]
         /\ pc' = [pc EXCEPT ![p] = IF k = 2 THEN "w_replace" ELSE "w_write"]
  /\ UNCHANGED << cfg, smz, fetch, now, dirs, items, json_abs, wpath, wpayload, phase,
                  runs, tokenLog, lastToken, published, stale, summary,
                  html, rendered, trace >>

\* the manifest exists and names the path
ManifestNames(path) ==
  /\ Exists(manifest_path)
  /\ Complete(fs[manifest_path])
  /\ Resolve(fs[manifest_path].data.json_path) = path

\* write_json_atomic: tmp.replace(path), and the return to
\* write_json_and_manifest.  The replace raises FileNotFoundError when the
\* temporary file is not there any more.
WReplace(p) ==
  /\ pc[p] = "w_replace"
  /\ IF Exists(TmpPath(wpath[p]))
     THEN /\ fs' = Replace(fs, TmpPath(wpath[p]), wpath[p])
          /\ wfile' = [q \in Procs |->
                         HandleAfterReplace(wfile[q], TmpPath(wpath[p]),
                                            wpath[p])]
          /\ IF phase[p] = "doc"
             THEN /\ pc' = [pc EXCEPT ![p] = "manifest"]
                  /\ stale' = (stale \/ ManifestNames(wpath[p]))
                  /\ UNCHANGED published
             ELSE /\ pc' = [pc EXCEPT ![p] = "returned"]
                  /\ stale' = FALSE
                  /\ published' =
                       << [count |-> Len(items[p]), items |-> items[p],
                           limit |-> fetch[p].limit] >>
          /\ UNCHANGED trace
     ELSE /\ pc' = [pc EXCEPT ![p] = "failed"]
          /\ trace' = [trace EXCEPT ![p].error = phase[p]]
          /\ UNCHANGED << fs, wfile, stale, published >>
  /\ UNCHANGED << cfg, smz, fetch, now, dirs, items, json_abs, wpath, wpayload, phase,
                  runs, tokenLog, lastToken, summary, html, rendered >>

\* write_json_and_manifest: manifest_payload is built and the arguments of
\* the second write_json_atomic are evaluated
BuildManifest(p) ==
  /\ pc[p] = "manifest"
  /\ wpayload' = [wpayload EXCEPT ![p] = ManifestPayload(json_abs[p], items[p])]
  /\ wpath' = [wpath EXCEPT ![p] = manifest_path]
  /\ phase' = [phase EXCEPT ![p] = "manifest"]
  /\ pc' = [pc EXCEPT ![p] = "w_mkdir"]
  /\ trace' = [trace EXCEPT ![p].manifest_calls = @ + 1]
  /\ UNCHANGED << cfg, smz, fetch, now, dirs, fs, items, json_abs, runs, tokenLog,
                  lastToken, published, stale, wfile, summary, html, rendered >>

\* the locals of a process are dropped when its run ends
EndRun(p) ==
  /\ pc' = [pc EXCEPT ![p] = "idle"]
  /\ items' = [items EXCEPT ![p] = << >>]
  /\ json_abs' = [json_abs EXCEPT ![p] = << >>]
  /\ wpath' = [wpath EXCEPT ![p] = << >>]
  /\ wpayload' = [wpayload EXCEPT ![p] = NoPayload]
  /\ phase' = [phase EXCEPT ![p] = "none"]
  /\ lastToken' = [lastToken EXCEPT ![p] = << >>]
  /\ wfile' = [wfile EXCEPT ![p] = NoHandle]
  /\ trace' = [trace EXCEPT ![p] = NoTrace]
  /\ fetch' = [fetch EXCEPT ![p] = NoFetch]

\* main: write_json_and_manifest has returned; renderer.write_html(items)
\* writes the page, and the run ends
FinishRun(p) ==
  /\ pc[p] = "returned"
  /\ html' = build_html(p)
  /\ rendered' = [items |-> items[p], clock |-> now, json_abs |-> json_abs[p]]
  /\ EndRun(p)
  /\ UNCHANGED << cfg, smz, now, dirs, fs, runs, tokenLog, published, stale,
                  summary >>

\* the process is killed between two steps of its run
Crash(p) ==
  /\ pc[p] \notin {"idle", "returned", "failed"}
  /\ EndRun(p)
  /\ UNCHANGED << cfg, smz, now, dirs, fs, runs, tokenLog, published, stale,
                  summary, html, rendered >>

\* the steps of a run that call the filesystem
Raises == {"compute", "w_mkdir", "w_open", "w_write", "w_replace"}

\* an error that is caught and dropped where it is raised: the run goes on
\* with its next step
FailSwallowed(p) ==
  /\ pc[p] \in Raises
  /\ pc' = [pc EXCEPT ![p] = CASE pc[p] = "compute" -> "failed"
                               [] pc[p] = "w_mkdir" -> "w_open"
                               [] pc[p] = "w_open" -> "w_replace"
                               [] pc[p] = "w_write" -> "w_replace"
                               [] pc[p] = "w_replace" ->
                                    IF phase[p] = "doc" THEN "manifest"
                                    ELSE "returned"]
  /\ wfile' = [wfile EXCEPT ![p] = NoHandle]
  /\ trace' = [trace EXCEPT ![p].error =
                 IF pc[p] = "compute" THEN "compute" ELSE phase[p]]
  /\ UNCHANGED << cfg, smz, fetch, now, dirs, fs, items, json_abs, wpath, wpayload,
                  phase, runs, tokenLog, lastToken, published, stale,
                  summary, html, rendered >>

\* A call of the filesystem raises OSError: the mkdir of compute_json_path
\* or of write_json_atomic, the open, a write (the with block closes the
\* file, a first part of the text may have reached it) or the replace.
\* Neither write_json_atomic nor write_json_and_manifest nor main catches
\* it.
Fail(p) ==
  /\ pc[p] \in Raises
  /\ pc' = [pc EXCEPT ![p] = "failed"]
  /\ \/ fs' = fs
     \/ /\ pc[p] = "w_write"
        /\ wfile[p].pos = 0
        /\ Exists(wfile[p].at)
        /\ fs' = Put(fs, wfile[p].at,
                     WriteChunk(fs[wfile[p].at], 1, wpayload[p]))
  /\ wfile' = [wfile EXCEPT ![p] = NoHandle]
  /\ trace' = [trace EXCEPT ![p].error =
                 IF pc[p] = "compute" THEN "compute" ELSE phase[p]]
  /\ UNCHANGED << cfg, smz, fetch, now, dirs, items, json_abs, wpath, wpayload, phase,
                  runs, tokenLog, lastToken, published, stale, summary,
                  html, rendered >>

\* a run that starts its publish step over after an error
ExitRetries(p) ==
  /\ pc[p] = "failed"
  /\ pc' = [pc EXCEPT ![p] = "compute"]
  /\ wfile' = [wfile EXCEPT ![p] = NoHandle]
  /\ trace' = [trace EXCEPT ![p].error = "none"]
  /\ UNCHANGED << cfg, smz, fetch, now, dirs, fs, items, json_abs, wpath, wpayload,
                  phase, runs, tokenLog, lastToken, published, stale,
                  summary, html, rendered >>

\* main: the error leaves main and the process exits
Exit(p) ==
  /\ pc[p] = "failed"
  /\ EndRun(p)
  /\ UNCHANGED << cfg, smz, now, dirs, fs, runs, tokenLog, published, stale,
                  summary, html, rendered >>

\* summarize.py, main: items = load_latest_items() reads the manifest and
\* the document it names (relative to the working directory, the project
\* root) and raises when one of them cannot be read; then the key is read.
\* categories_ok: config/categories.json is absent or holds lists of
\* keywords, so that classify_item does not raise.  The steps of the
\* workflow run one after another.
StartSummarize(api_key, categories_ok) ==
  /\ smz.pc = "idle"
  /\ \A p \in Procs : pc[p] = "idle"
  /\ runs < MaxRuns
  /\ runs' = runs + 1
  /\ smz' =
       IF ~Readable(manifest_path)
            \/ ~Readable(Resolve(fs[manifest_path].data.json_path))
       THEN [NoSummarize EXCEPT !.pc = "failed", !.error = "load"]
       ELSE [NoSummarize EXCEPT
               !.pc = IF api_key # "" THEN "s_remote" ELSE "s_rules",
               !.items = fs[Resolve(fs[manifest_path].data.json_path)].data.items,
               !.api_key = api_key,
               !.categories_ok = categories_ok]
  /\ UNCHANGED << cfg, now, dirs, fs, pc, fetch, items, json_abs, wpath,
                  wpayload, phase, tokenLog, lastToken, published, stale,
                  wfile, summary, html, rendered, trace >>

\* a main whose remote attempt is not guarded
RemoteUnguarded(outcome) ==
  /\ smz.pc = "s_remote"
  /\ outcome # "raises" => smz.categories_ok
  /\ smz' = IF outcome = "raises"
            THEN [smz EXCEPT !.pc = "failed", !.error = "remote",
                             !.attempts = Append(@, "remote")]
            ELSE [smz EXCEPT !.pc = "s_write",
                             !.summary = render_openai_summary(outcome),
                             !.attempts = Append(@, "remote")]
  /\ UNCHANGED << cfg, now, dirs, fs, pc, fetch, items, json_abs, wpath,
                  wpayload, phase, runs, tokenLog, lastToken, published,
                  stale, wfile, summary, html, rendered, trace >>

\* main, lines 233-237: try: summary = render_openai_summary(items, api_key)
\* except Exception: the rules come next.  The attempt builds the trends
\* before its request, so it raises whenever classify_item does.
Remote(outcome) ==
  /\ smz.pc = "s_remote"
  /\ outcome # "raises" => smz.categories_ok
  /\ smz' = IF outcome = "raises"
            THEN [smz EXCEPT !.pc = "s_rules",
                             !.attempts = Append(@, "remote")]
            ELSE [smz EXCEPT !.pc = "s_write",
                             !.summary = render_openai_summary(outcome),
                             !.attempts = Append(@, "remote")]
  /\ UNCHANGED << cfg, now, dirs, fs, pc, fetch, items, json_abs, wpath,
                  wpayload, phase, runs, tokenLog, lastToken, published,
                  stale, wfile, summary, html, rendered, trace >>

\* main, lines 237 and 239: summary = render_rules_summary(items), whose
\* exception leaves main
Rules ==
  /\ smz.pc = "s_rules"
  /\ smz' = IF smz.categories_ok
            THEN [smz EXCEPT !.pc = "s_write",
                             !.summary = render_rules_summary(smz.items),
                             !.attempts = Append(@, "rules")]
            ELSE [smz EXCEPT !.pc = "failed", !.error = "rules",
                             !.attempts = Append(@, "rules")]
  /\ UNCHANGED << cfg, now, dirs, fs, pc, fetch, items, json_abs, wpath,
                  wpayload, phase, runs, tokenLog, lastToken, published,
                  stale, wfile, summary, html, rendered, trace >>

\* main, lines 240-241: open("summary.md", "w") and f.write(summary).  When
\* open raises the file is as before; when write raises the file is there
\* and empty.
WriteSummary(opened, ok) ==
  /\ smz.pc = "s_write"
  /\ ok => opened
  /\ IF ok
     THEN /\ summary' = [summary EXCEPT !.md = smz.summary]
          /\ smz' = [smz EXCEPT !.pc = "s_json", !.wrote = TRUE]
     ELSE /\ summary' = [summary EXCEPT !.md = IF opened THEN << >> ELSE @]
          /\ smz' = [smz EXCEPT !.pc = "failed", !.error = "write"]
  /\ UNCHANGED << cfg, now, dirs, fs, pc, fetch, items, json_abs, wpath,
                  wpayload, phase, runs, tokenLog, lastToken, published,
                  stale, wfile, html, rendered, trace >>

\* main, lines 242-251: the counts are built again and written to
\* data/summary.json (the directory of the manifest, which exists); a
\* failed write leaves the file without counts.
WriteCounts(opened, ok) ==
  /\ smz.pc = "s_json"
  /\ ok => opened
  /\ IF ok
     THEN /\ summary' = [summary EXCEPT
                           !.company_counts = build_trends(smz.items)]
          /\ smz' = [smz EXCEPT !.pc = "s_done"]
     ELSE /\ summary' = [summary EXCEPT
                           !.company_counts = IF opened THEN << >> ELSE @]
          /\ smz' = [smz EXCEPT !.pc = "failed", !.error = "json"]
  /\ UNCHANGED << cfg, now, dirs, fs, pc, fetch, items, json_abs, wpath,
                  wpayload, phase, runs, tokenLog, lastToken, published,
                  stale, wfile, html, rendered, trace >>

\* main returns, or the exception ends the process
EndSummarize ==
  /\ smz.pc \in {"s_done", "failed"}
  /\ smz' = NoSummarize
  /\ UNCHANGED << cfg, now, dirs, fs, pc, fetch, items, json_abs, wpath,
                  wpayload, phase, runs, tokenLog, lastToken, published,
                  stale, wfile, summary, html, rendered, trace >>

Next ==
  \/ Tick
  \/ \E p \in SeqProcs, its \in ItemLists : StartRun(p, its)
  \/ \E p \in SeqProcs, r \in Draws : ComputePath(p, r)
  \/ \E p \in SeqProcs : WMkdir(p)
  \/ \E p \in SeqProcs : WOpen(p)
  \/ \E p \in SeqProcs : WWrite(p)
  \/ \E p \in SeqProcs : WReplace(p)
  \/ \E p \in SeqProcs : BuildManifest(p)
  \/ \E p \in SeqProcs : FinishRun(p)
  \/ \E p \in SeqProcs : Crash(p)

Spec == Init /\ [][Next]_vars

\* The part of the runs that decides the path, for every configuration:
\* every run stops once compute_json_path has returned.
NextToken ==
  \/ Tick
  \/ \E p \in SeqProcs, its \in ItemLists : StartRun(p, its)
  \/ \E p \in SeqProcs, r \in Draws : ComputePath(p, r)
  \/ \E p \in SeqProcs : Crash(p)

SpecToken == InitToken /\ [][NextToken]_vars

\* Runs in which calls of the filesystem raise: every step of Next but the
\* kill, the raised error and the exit it leads to.
NextFail ==
  \/ Tick
  \/ \E p \in SeqProcs, its \in ItemLists : StartRun(p, its)
  \/ \E p \in SeqProcs, r \in Draws : ComputePath(p, r)
  \/ \E p \in SeqProcs : WMkdir(p)
  \/ \E p \in SeqProcs : WOpen(p)
  \/ \E p \in SeqProcs : WWrite(p)
  \/ \E p \in SeqProcs : WReplace(p)
  \/ \E p \in SeqProcs : BuildManifest(p)
  \/ \E p \in SeqProcs : FinishRun(p)
  \/ \E p \in SeqProcs : Fail(p)
  \/ \E p \in SeqProcs : Exit(p)

SpecFail == Init /\ [][NextFail]_vars

\* the configurations with a token in the path
PageConfigs == { c \in PublishConfigs : c.json_randomize }

InitPage == SetUp(PageConfigs, Summaries)

\* Runs that render the page, one after another, for each of the summaries:
\* every step of Next but the kill.
NextPage ==
  \/ Tick
  \/ \E p \in SeqProcs, its \in ItemLists : StartRun(p, its)
  \/ \E p \in SeqProcs, r \in Draws : ComputePath(p, r)
  \/ \E p \in SeqProcs : WMkdir(p)
  \/ \E p \in SeqProcs : WOpen(p)
  \/ \E p \in SeqProcs : WWrite(p)
  \/ \E p \in SeqProcs : WReplace(p)
  \/ \E p \in SeqProcs : BuildManifest(p)
  \/ \E p \in SeqProcs : FinishRun(p)

SpecPage == InitPage /\ [][NextPage]_vars

\* the configurations without a salt: the fixed path and the random token
FetchConfigs == { c \in PublishConfigs : c.json_salt = "" }

InitFetch == SetUp(FetchConfigs, {NoSummary})

\* Runs of the whole pipeline, one after another: fetch with its requests,
\* then the publish step and the page.  Each run loads max_results anew.  No
\* step of fetch that is modelled reads the clock, which stands still here.
NextFetch ==
  \/ \E p \in SeqProcs, m \in MaxResultsValues : StartFetch(p, m)
  \/ \E p \in SeqProcs, page \in Pages, zero \in BOOLEAN :
       Request(p, TRUE, page, zero)
  \/ \E p \in SeqProcs : Request(p, FALSE, << >>, FALSE)
  \/ \E p \in SeqProcs : LoopEnds(p)
  \/ \E p \in SeqProcs : FetchReturn(p)
  \/ \E p \in SeqProcs, r \in Draws : ComputePath(p, r)
  \/ \E p \in SeqProcs : WMkdir(p)
  \/ \E p \in SeqProcs : WOpen(p)
  \/ \E p \in SeqProcs : WWrite(p)
  \/ \E p \in SeqProcs : WReplace(p)
  \/ \E p \in SeqProcs : BuildManifest(p)
  \/ \E p \in SeqProcs : FinishRun(p)

SpecFetch == InitFetch /\ [][NextFetch]_vars

\* one step of the loop of fetch: a request that is answered, a request
\* that raises, or the test that leaves the loop
FetchStep(p) ==
  \/ \E page \in Pages, zero \in BOOLEAN : Request(p, TRUE, page, zero)
  \/ Request(p, FALSE, << >>, FALSE)
  \/ LoopEnds(p)

\* The same runs, in which a process inside the loop goes on: fetch is
\* synchronous code, and urlopen(url, timeout=30) returns or raises.
SpecPaging ==
  InitFetch /\ [][NextFetch]_vars /\ \A p \in SeqProcs : WF_vars(FetchStep(p))

\* Runs that overlap: two processes run the pipeline at the same time on the
\* same project root, their steps interleaved in any order.  No process is
\* killed and no call raises but a replace that does not find its
\* temporary file.
NextConc ==
  \/ Tick
  \/ \E p \in Procs, its \in ItemLists : StartRun(p, its)
  \/ \E p \in Procs, r \in Draws : ComputePath(p, r)
  \/ \E p \in Procs : WMkdir(p)
  \/ \E p \in Procs : WOpen(p)
  \/ \E p \in Procs : WWrite(p)
  \/ \E p \in Procs : WReplace(p)
  \/ \E p \in Procs : BuildManifest(p)
  \/ \E p \in Procs : FinishRun(p)
  \/ \E p \in Procs : Exit(p)

SpecConc == Init /\ [][NextConc]_vars

\* The steps of the workflow, one after another: runs of the publisher and
\* runs of summarize.py on what they left.  No process is killed; the calls
\* of summarize.py can raise.
NextSummary ==
  \/ Tick
  \/ \E p \in SeqProcs, its \in ItemLists :
       smz.pc = "idle" /\ StartRun(p, its)
  \/ \E p \in SeqProcs, r \in Draws : ComputePath(p, r)
  \/ \E p \in SeqProcs : WMkdir(p)
  \/ \E p \in SeqProcs : WOpen(p)
  \/ \E p \in SeqProcs : WWrite(p)
  \/ \E p \in SeqProcs : WReplace(p)
  \/ \E p \in SeqProcs : BuildManifest(p)
  \/ \E p \in SeqProcs : FinishRun(p)
  \/ \E k \in ApiKeys, c \in BOOLEAN : StartSummarize(k, c)
  \/ \E o \in RemoteOutcomes : Remote(o)
  \/ Rules
  \/ \E opened, ok \in BOOLEAN : WriteSummary(opened, ok)
  \/ \E opened, ok \in BOOLEAN : WriteCounts(opened, ok)
  \/ EndSummarize

\* the configurations without a salt, and no summary yet
InitSummary == SetUp(FetchConfigs, {NoSummary})

SpecSummary == InitSummary /\ [][NextSummary]_vars

\* ------------------------------------------------------------------ readers
\* the data is one feed document
IsFeedDocument(d) ==
  /\ DOMAIN d = {"updated_at", "count", "items"}
  /\ d.count = Len(d.items)

\* the file the published manifest points at
ManifestTarget == Resolve(fs[manifest_path].data.json_path)

\* ------------------------------------------------------------------- claims

\* C1: once a manifest is published, in every state (in the middle of a later
\* run and after a crash between any two steps alike) the file its json_path
\* names under the project root exists and holds one complete feed document.
C1_ManifestTargetComplete ==
  Exists(manifest_path) =>
    /\ Complete(fs[manifest_path])
    /\ Exists(ManifestTarget)
    /\ Complete(fs[ManifestTarget])
    /\ IsFeedDocument(fs[ManifestTarget].data)

\* C1 witness: a later run was interrupted while it rewrote the published
\* document; its half-written temporary file lies next to the document.
C1_Witness ==
  /\ Exists(manifest_path)
  /\ runs = MaxRuns
  /\ pc[1] = "idle"
  /\ Exists(TmpPath(ManifestTarget))
  /\ ~Complete(fs[TmpPath(ManifestTarget)])

\* the document under the manifest is the one of the run that wrote the
\* manifest
ManifestDocIsPublished ==
  /\ Exists(ManifestTarget)
  /\ Complete(fs[ManifestTarget])
  /\ fs[ManifestTarget].data.count = published[1].count
  /\ fs[ManifestTarget].data.items = published[1].items
  /\ fs[manifest_path].data.count = published[1].count

\* C2 as stated: at any point in time the document at the manifest's
\* json_path has the count and the items of the run that wrote the manifest.
C2_Original ==
  Exists(manifest_path) => ManifestDocIsPublished

\* C2 amended: the document at the manifest's json_path is the one of the
\* run that wrote the manifest for as long as no later run has replaced the
\* document at that same path.
C2_ManifestDocUntilOverwritten ==
  (Exists(manifest_path) /\ ~stale) => ManifestDocIsPublished

\* C2 witness: a later run has replaced its own document at another path and
\* has not yet written the manifest.
C2_Witness ==
  /\ Exists(manifest_path)
  /\ ~stale
  /\ pc[1] = "manifest"
  /\ json_abs[1] # ManifestTarget
  /\ Exists(json_abs[1])
  /\ fs[json_abs[1]].data.count # published[1].count

\* a step leaves the path as a reader found it before, or puts the whole
\* payload of a writer that is at its replace step there
OldOrNew(path) ==
  \/ Read(path)' = Read(path)
  \/ \E p \in Procs :
       /\ pc[p] = "w_replace"
       /\ wpath[p] = path
       /\ Read(path)' = [data |-> wpayload[p], written |-> "all"]

\* C3: while write_json_atomic runs, a reader of the target path finds the
\* complete old document (or no file) or the complete new document at every
\* step; partial content only ever lies in the temporary file.
C3_ReaderSeesOldOrNew ==
  [][\A path \in (DOMAIN fs) \cup (DOMAIN fs') :
       ~IsTmp(path) =>
         /\ OldOrNew(path)
         /\ Read(path)' = NoFile \/ Complete(Read(path)')]_vars

\* C3 witness: the writer is halfway through the temporary file while the
\* target still holds a different, complete document.
C3_Witness ==
  /\ pc[1] = "w_write"
  /\ Exists(wpath[1])
  /\ Complete(fs[wpath[1]])
  /\ Exists(TmpPath(wpath[1]))
  /\ fs[TmpPath(wpath[1])].written = "part"
  /\ ~Complete(fs[TmpPath(wpath[1])])
  /\ fs[wpath[1]].data # wpayload[1]

\* C4: right after write_json_and_manifest returns, the manifest's json_path
\* joined to the project root names an existing file, the file the run
\* wrote, and the count in that file equals the count in the manifest.
C4_ManifestMatchesAfterReturn ==
  \A p \in Procs :
    pc[p] = "returned" =>
      /\ Exists(manifest_path)
      /\ Complete(fs[manifest_path])
      /\ ManifestTarget = json_abs[p]
      /\ Exists(ManifestTarget)
      /\ Complete(fs[ManifestTarget])
      /\ fs[ManifestTarget].data.count = fs[manifest_path].data.count

\* C4 witness: a second run has returned with a non-empty list.
C4_Witness ==
  /\ pc[1] = "returned"
  /\ runs = MaxRuns
  /\ Len(items[1]) > 0
  /\ fs[manifest_path].data.count = Len(items[1])

\* the pipeline is configured for the daily-stable token
StableSalted ==
  /\ cfg.json_randomize
  /\ cfg.json_daily_stable
  /\ cfg.json_salt # ""

\* C5 as stated: with randomize on, stable on and a fixed non-empty salt, any
\* two token generations on the same UTC calendar date return the identical
\* token, and so the identical path.
C5_SameUtcDateSameToken ==
  StableSalted =>
    \A a, b \in tokenLog :
      a.utc = b.utc =>
        /\ a.token = b.token
        /\ TokenPath(a.token) = TokenPath(b.token)

C7_UnstableTokenIsRandom ==
  ~cfg.json_daily_stable =>
    \A g \in tokenLog :
      /\ g.source = "random"
      /\ g.token # HashToken(g.today, cfg.json_salt)

\* C8: with an empty salt the token comes from the random branch, with
\* stable on exactly as with stable off: it is one of the outcomes of the
\* random source and never the hash of a date with the empty salt.
C8_EmptySaltIsRandom ==
  cfg.json_salt = "" =>
    \A g \in tokenLog :
      /\ g.source = "random"
      /\ g.token \in { RandomToken(r) : r \in 1..MaxRand }
      /\ g.token # HashToken(g.today, "")
      /\ g.token # HashToken(g.utc, "")

\* C8 witness: a token was generated with stable on and an empty salt.
C8_Witness ==
  /\ cfg.json_daily_stable
  /\ cfg.json_salt = ""
  /\ tokenLog # {}

\* C9: compute_json_path returns <project_root>/data/latest.json whenever
\* randomize is false, whatever stable and salt are, and otherwise
\* <project_root>/data/<token>/<token>.json, directory and file stem being
\* the one token of a single generation.
C9_PathShape ==
  \A p \in Procs :
    pc[p] \notin {"idle", "compute"} =>
      IF ~cfg.json_randomize
      THEN /\ json_abs[p] = project_root \o << <<"data">>, <<"latest", ".json">> >>
           /\ lastToken[p] = << >>
      ELSE /\ Len(lastToken[p]) = 1
           /\ Len(json_abs[p]) = Len(project_root) + 3
           /\ SubSeq(json_abs[p], 1, Len(project_root)) = project_root
           /\ json_abs[p][Len(project_root) + 1] = <<"data">>
           /\ json_abs[p][Len(project_root) + 2] = lastToken[p][1].token
           /\ json_abs[p][Len(project_root) + 3] =
                lastToken[p][1].token \o <<".json">>

\* C9 witness: a path was resolved from a random token.
C9_Witness ==
  /\ cfg.json_randomize
  /\ ~cfg.json_daily_stable
  /\ pc[1] = "w_mkdir"
  /\ phase[1] = "doc"
  /\ Len(lastToken[1]) = 1
  /\ lastToken[1][1].source = "random"

LowercaseLetters ==
  { "a","b","c","d","e","f","g","h","i","j","k","l","m",
    "n","o","p","q","r","s","t","u","v","w","x","y","z" }

Digits == { "0","1","2","3","4","5","6","7","8","9" }

\* C10: every token, from the random branch and from the salted-daily
\* branch alike, is exactly 16 characters long and each character is a
\* lowercase letter or a digit.
C10_TokenShape ==
  \A g \in tokenLog :
    /\ Len(g.token) = 16
    /\ \A i \in 1..Len(g.token) : g.token[i] \in LowercaseLetters \cup Digits

\* C10 witness: tokens of the salted-daily branch were generated on two
\* different dates.
C10_Witness ==
  \E a, b \in tokenLog : a.source = "hash" /\ a.token # b.token

\* the document of the run of p is visible at its path
RunDocVisible(p) ==
  /\ Exists(json_abs[p])
  /\ Complete(fs[json_abs[p]])
  /\ fs[json_abs[p]].data.items = items[p]
  /\ fs[json_abs[p]].data.count = Len(items[p])

\* the manifest, or its temporary file, holds the record p has built
HoldsRecordOf(p, path) ==
  /\ phase[p] = "manifest"
  /\ Exists(path)
  /\ fs[path].written # "none"
  /\ fs[path].data = wpayload[p]

\* C11: within one run the document is replaced onto its path before the
\* temporary file of the manifest is written and before the manifest is
\* replaced: whenever the run is past the document's write_json_atomic, and
\* whenever the manifest or its temporary file holds the run's record, the
\* run's document is visible at its path.
C11_DocumentBeforeManifest ==
  \A p \in Procs :
    /\ pc[p] \in {"manifest", "returned"} => RunDocVisible(p)
    /\ phase[p] = "manifest" => RunDocVisible(p)
    /\ HoldsRecordOf(p, TmpPath(manifest_path)) => RunDocVisible(p)
    /\ HoldsRecordOf(p, manifest_path) => RunDocVisible(p)
    /\ phase[p] = "doc" =>
         /\ trace[p].manifest_calls = 0
         /\ Read(manifest_path) = trace[p].manifest

\* C11 witness: the run is halfway through the temporary file of the
\* manifest, its document lies at a path the old manifest does not name.
C11_Witness ==
  /\ pc[1] = "w_write"
  /\ HoldsRecordOf(1, TmpPath(manifest_path))
  /\ fs[TmpPath(manifest_path)].written = "part"
  /\ Exists(manifest_path)
  /\ ManifestTarget # json_abs[1]
  /\ RunDocVisible(1)

\* C12: the manifest lives at the one manifest path; a run that has
\* completed its publish step leaves there exactly the record
\* {updated_at, json_path, count} of that run, whatever the manifest held
\* before: its time is not before the run's document, its json_path and
\* count are the run's, and no other field is there.
C12_ManifestIsLatestRecord ==
  /\ \A path \in DOMAIN fs :
       Name(path)[1] = "manifest" =>
         path \in {manifest_path, TmpPath(manifest_path)}
  /\ \A p \in Procs :
       pc[p] = "returned" =>
         /\ Exists(manifest_path)
         /\ Complete(fs[manifest_path])
         /\ DOMAIN fs[manifest_path].data = {"updated_at", "json_path", "count"}
         /\ fs[manifest_path].data.json_path = RelativeTo(json_abs[p])
         /\ fs[manifest_path].data.count = Len(items[p])
         /\ fs[manifest_path].data.updated_at <= now
         /\ fs[manifest_path].data.updated_at >=
              fs[json_abs[p]].data.updated_at
         /\ fs[manifest_path] = [data |-> wpayload[p], written |-> "all"]

\* C12 witness: the run found a manifest with another path, another count
\* and an earlier time, and has replaced it.
C12_Witness ==
  /\ pc[1] = "returned"
  /\ Complete(trace[1].manifest)
  /\ trace[1].manifest.data.json_path # fs[manifest_path].data.json_path
  /\ trace[1].manifest.data.count # fs[manifest_path].data.count
  /\ trace[1].manifest.data.updated_at < fs[manifest_path].data.updated_at

\* C13: a call of write_json_atomic that raises, at the mkdir, at the open,
\* at a write or at the replace, ends the run with the error (no later step
\* of the writer or of its caller is taken), and no step of the call before
\* the replace, the raising one included, changes any file but the
\* temporary one: the target is what it was before the call.
C13_FailedWriteLeavesTarget ==
  [][\A p \in Procs :
       /\ (trace[p].error # "none" \/ trace'[p].error # "none") =>
            pc'[p] \in {"failed", "idle"}
       /\ (pc[p] \in {"w_mkdir", "w_open", "w_write", "w_replace"}
             /\ pc'[p] \notin {"manifest", "returned"}) =>
            \A path \in (DOMAIN fs) \cup (DOMAIN fs') :
              path # TmpPath(wpath[p]) => Read(path)' = Read(path)]_vars

\* C13 witness: the write of the second document to the path of the first
\* has raised after a part of the text; the target still holds the first
\* document, the temporary file the part.
C13_Witness ==
  /\ pc[1] = "failed"
  /\ trace[1].error = "doc"
  /\ Exists(wpath[1])
  /\ Complete(fs[wpath[1]])
  /\ fs[wpath[1]].data.items # items[1]
  /\ Exists(TmpPath(wpath[1]))
  /\ fs[TmpPath(wpath[1])].written = "part"

\* C14: a run calls write_json_atomic at most once for the document and at
\* most once for the manifest; when compute_json_path or the write of the
\* document raises, the run ends there: the second call is never made, the
\* manifest and the page are what the run found when it started.
C14_SingleAttemptFailFast ==
  \A p \in Procs :
    /\ trace[p].doc_calls <= 1
    /\ trace[p].manifest_calls <= 1
    /\ trace[p].error # "none" => pc[p] = "failed"
    /\ trace[p].error \in {"compute", "doc"} =>
         /\ trace[p].manifest_calls = 0
         /\ Read(manifest_path) = trace[p].manifest
         /\ html = trace[p].page

\* C14 witness: the replace of the document has raised in a run that found
\* a manifest and a page.
C14_Witness ==
  /\ pc[1] = "failed"
  /\ trace[1].error = "doc"
  /\ trace[1].doc_calls = 1
  /\ Exists(TmpPath(wpath[1]))
  /\ Complete(fs[TmpPath(wpath[1])])
  /\ Complete(trace[1].manifest)
  /\ trace[1].page # NoHtml

\* C18: after write_json_and_manifest(items) the document at the computed
\* path is the one of this call alone: its count and the manifest's count
\* are the number of items passed in, its items are the passed sequence in
\* the passed order, and it has no other field and no item of a document
\* that was at the path before.
C18_DocumentIsFresh ==
  \A p \in Procs :
    pc[p] = "returned" =>
      /\ Exists(json_abs[p])
      /\ Complete(fs[json_abs[p]])
      /\ DOMAIN fs[json_abs[p]].data = {"updated_at", "count", "items"}
      /\ fs[json_abs[p]].data.count = Len(items[p])
      /\ fs[json_abs[p]].data.items = items[p]
      /\ \A i \in 1..Len(items[p]) : fs[json_abs[p]].data.items[i] = items[p][i]
      /\ fs[manifest_path].data.count = Len(items[p])

\* C18 witness: a run has returned with no item after an earlier run had
\* left a document with two items at the same path.
C18_Witness ==
  /\ pc[1] = "returned"
  /\ items[1] = << >>
  /\ Complete(trace[1].manifest)
  /\ trace[1].manifest.data.count = 2
  /\ Resolve(trace[1].manifest.data.json_path) = json_abs[1]

\* the file is the whole payload of one call of write_json_atomic
WholePayload(file) ==
  /\ Complete(file)
  /\ \/ IsFeedDocument(file.data)
     \/ DOMAIN file.data = {"updated_at", "json_path", "count"}

\* C15 as stated: when two runs overlap and write the same target, the
\* manifest or a document at a fixed or daily-stable path, the target holds
\* at every moment the complete payload of exactly one run, never a
\* truncated file and never parts of both.
C15_TargetsWholeUnderOverlap ==
  \A path \in DOMAIN fs : ~IsTmp(path) => WholePayload(fs[path])

\* C16 as stated: when two runs overlap, both complete their publish step,
\* the manifest is the record of the run that replaced it last, and the
\* document it names is a whole document, of that run or of the other.
C16_BothRunsPublish ==
  /\ \A p \in Procs : pc[p] # "failed" /\ trace[p].error = "none"
  /\ Exists(manifest_path) =>
       /\ Complete(fs[manifest_path])
       /\ fs[manifest_path].data.count = published[1].count
       /\ Exists(ManifestTarget)
       /\ Complete(fs[ManifestTarget])
       /\ IsFeedDocument(fs[ManifestTarget].data)

\* the run of p is about to render from what the page was rendered from
\* (the configuration and the summary do not change), for another path
SameInputsOtherPath(p) ==
  /\ pc[p] = "returned"
  /\ html # NoHtml
  /\ rendered.items = items[p]
  /\ rendered.clock = now
  /\ rendered.json_abs # json_abs[p]

\* C17: the page does not depend on the path or the token of the feed: a
\* run that renders from the same items, configuration, summary and clock
\* as the run before it, with a document at another path, writes the
\* identical page.
C17_PageIgnoresPath ==
  [][\A p \in Procs :
       (SameInputsOtherPath(p) /\ pc'[p] = "idle") => html' = html]_vars

\* C17 witness: two runs with the same two items drew different random
\* tokens in the same slot of the clock; the second is about to render.
C17_Witness ==
  /\ SameInputsOtherPath(1)
  /\ Len(items[1]) = 2
  /\ summary # NoSummary
  /\ lastToken[1][1].source = "random"
\* the urls of the list are pairwise distinct
DistinctUrls(its) ==
  \A i, j \in 1..Len(its) : its[i] = its[j] => i = j

\* fetch has just returned to main
Fetched(p) == pc[p] = "compute" /\ fetch[p].start > 0

\* what the manifest fallback of fetch finds: the items of the document
\* the manifest names, or nothing when one of the two files is not readable
FallbackItems ==
  IF Readable(manifest_path) /\ Readable(ManifestTarget)
  THEN fs[ManifestTarget].data.items
  ELSE << >>

\* C19 as stated: the list fetch returns, on every return path, the manifest
\* fallback included, has pairwise distinct urls, is in the order of first
\* arrival, and has at most max_results items (an empty list is within
\* every bound).
C19_Original ==
  \A p \in Procs :
    Fetched(p) =>
      /\ DistinctUrls(items[p])
      /\ Fresh(p) =>
           items[p] = SubSeq(Dedup(fetch[p].items), 1, Len(items[p]))
      /\ Len(items[p]) <= fetch[p].max_results \/ items[p] = << >>

\* C19 amended: the list fetch returns has pairwise distinct urls on every
\* return path.  When it is the fresh result it is the first max_results
\* items, in the order of first arrival, of what the run collected.  When it
\* comes from the manifest fallback it is the item list of the published
\* document as it is, and has at most as many items as the max_results of
\* the run that collected them, not of the current run.
C19_ReturnedList ==
  \A p \in Procs :
    Fetched(p) =>
      /\ DistinctUrls(items[p])
      /\ Len(items[p]) <= fetch[p].limit
      /\ Fresh(p) =>
           /\ fetch[p].limit = fetch[p].max_results
           /\ Len(items[p]) <= fetch[p].max_results
           /\ items[p] = SubSeq(Dedup(fetch[p].items), 1, Len(items[p]))
           /\ \A u \in Links :
                (\E i \in 1..Len(fetch[p].items) : fetch[p].items[i] = u) =>
                  \/ \E i \in 1..Len(items[p]) : items[p][i] = u
                  \/ Len(items[p]) = fetch[p].max_results
      /\ ~Fresh(p) => items[p] = FallbackItems

\* C19 witness: fetch has collected the same url twice and another one, and
\* returns the two urls in the order of their first arrival.
C19_Witness ==
  /\ Fetched(1)
  /\ Fresh(1)
  /\ Len(fetch[1].items) = 3
  /\ ~DistinctUrls(fetch[1].items)
  /\ Len(items[1]) = 2

\* C20: when a request failed or nothing is left after deduplication, fetch
\* returns the items of the document the manifest names and drops what it
\* collected, or the empty list when the manifest or that document cannot
\* be read; it returns the fresh result only when no request failed and the
\* result is not empty.
C20_FallbackToManifest ==
  \A p \in Procs :
    Fetched(p) =>
      LET result == Slice(Dedup(fetch[p].items), fetch[p].max_results)
      IN  IF fetch[p].cse_failed \/ result = << >>
          THEN IF Readable(manifest_path) /\ Readable(ManifestTarget)
               THEN items[p] = fs[ManifestTarget].data.items
               ELSE items[p] = << >>
          ELSE items[p] = result

\* C20 witness: the second request failed after the first had brought an
\* item; fetch returns the two items of the published document.
C20_Witness ==
  /\ Fetched(1)
  /\ fetch[1].cse_failed
  /\ Len(fetch[1].requests) = 2
  /\ Len(fetch[1].items) = 1
  /\ Len(items[1]) = 2
  /\ items[1] = fs[ManifestTarget].data.items

\* the run of summarize.py is over: main returned or an exception left it
SummarizeEnded == smz.pc \in {"s_done", "failed"}

\* C21 as stated: the summary step tries the remote summary first when a key
\* is set and substitutes the rules-based summary when that attempt fails or
\* no key is set, so that every run in which the rules-based summary itself
\* does not fail has written summary.md with one of the two.
C21_Original ==
  (SummarizeEnded /\ smz.error # "rules") =>
    /\ smz.wrote
    /\ summary.md = smz.summary

\* C21, amended: the renderings are tried in order, the remote one first
\* and only when a key is set, the rules after its exception or without a
\* key; no exception of the remote attempt leaves main; and every run that
\* has loaded the items, in which the rules did not raise and summary.md
\* could be written, has written summary.md with the text of the last
\* rendering tried.
C21_FallbackChain ==
  /\ smz.attempts \in
       IF smz.api_key # "" THEN { << >>, << "remote" >>, << "remote", "rules" >> }
       ELSE { << >>, << "rules" >> }
  /\ smz.error \in {"none", "load", "rules", "write", "json"}
  /\ smz.error = "rules" => ~smz.categories_ok
  /\ smz.wrote =>
       /\ smz.attempts # << >>
       /\ smz.attempts[Len(smz.attempts)] = "rules" =>
            smz.summary = render_rules_summary(smz.items)
       /\ smz.attempts[Len(smz.attempts)] = "remote" =>
            smz.summary \in { render_openai_summary(o) :
                                o \in RemoteOutcomes \ {"raises"} }
       /\ smz.error \in {"none", "json"}
       /\ summary.md = smz.summary
  /\ (SummarizeEnded /\ smz.error \notin {"load", "rules", "write"}) =>
       smz.wrote

\* a run with a key whose remote attempt raised has written the rules-based
\* summary of the published items
C21_Witness ==
  /\ smz.pc = "s_done"
  /\ smz.api_key # ""
  /\ smz.attempts = << "remote", "rules" >>
  /\ smz.items # << >>
  /\ smz.wrote
  /\ summary.md = render_rules_summary(smz.items)

\* the start values of the first n requests: 1, 11, 21, ...
PagingStarts(n) == [i \in 1..n |-> 10 * (i - 1) + 1]

\* the loop of process p may issue a request: nothing has stopped it
MayRequest(p) ==
  /\ pc[p] = "f_loop"
  /\ ~fetch[p].cse_failed
  /\ ~fetch[p].zero
  /\ Len(fetch[p].items) < fetch[p].max_results

\* C22: the paging loop of fetch issues at most 10 requests, with start
\* values 1, 11, ..., 91 in increasing order, and none when max_results is 0
\* or negative; no request follows a failed request, a response that
\* reports zero total results, or the moment at least max_results candidate
\* items have accumulated; the loop is left for one of these reasons or
\* after the request with start 91; and the loop always terminates.
C22_PagingLoop ==
  /\ [](\A p \in SeqProcs :
          LET f == fetch[p]
          IN  /\ Len(f.requests) <= 10
              /\ f.requests = PagingStarts(Len(f.requests))
              /\ f.max_results <= 0 => f.requests = << >>
              /\ (pc[p] = "f_loop" /\ f.requests # << >>) => MayRequest(p)
              /\ pc[p] = "f_done" =>
                   \/ f.cse_failed
                   \/ f.zero
                   \/ Len(f.items) >= f.max_results
                   \/ f.start > 91)
  /\ [][\A p \in SeqProcs :
          fetch'[p].requests # fetch[p].requests =>
            \/ fetch'[p].requests = << >>
            \/ /\ MayRequest(p)
               /\ fetch'[p].requests =
                    Append(fetch[p].requests, 10 * Len(fetch[p].requests) + 1)]_vars
  /\ \A p \in SeqProcs : (pc[p] = "f_loop") ~> (pc[p] = "f_done")

\* the loop was left after ten answered requests, the last with start 91,
\* that gave too few items
C22_Witness ==
  /\ pc[1] = "f_done"
  /\ Len(fetch[1].requests) = 10
  /\ fetch[1].requests[10] = 91
  /\ ~fetch[1].cse_failed
  /\ ~fetch[1].zero
  /\ Len(fetch[1].items) < fetch[1].max_results

\* the files a run that resolved its document to path may change
Touched(path) ==
  {path, TmpPath(path), manifest_path, TmpPath(manifest_path)}

\* a whole feed document that is not a temporary file
PublishedDocument(path) ==
  /\ Exists(path)
  /\ ~IsTmp(path)
  /\ Complete(fs[path])
  /\ IsFeedDocument(fs[path].data)

\* C23: write_json_and_manifest changes only the resolved feed path, the
\* manifest path and their .tmp siblings; over any sequence of runs, killed
\* ones included, a feed document published earlier at a different token
\* path is never deleted or modified; and when a run has succeeded neither
\* its feed path nor the manifest path has a .tmp sibling.
C23_OnlyOwnPathsChange ==
  /\ [][\A p \in SeqProcs :
          /\ fs' # fs =>
               /\ json_abs[p] # << >>
               /\ \A path \in (DOMAIN fs) \cup (DOMAIN fs') :
                    Read(path)' # Read(path) => path \in Touched(json_abs[p])
          /\ \A path \in DOMAIN fs :
               (PublishedDocument(path) /\ path # json_abs[p]) =>
                 /\ path \in DOMAIN fs'
                 /\ fs'[path] = fs[path]]_vars
  /\ [](\A p \in SeqProcs :
          pc[p] = "returned" =>
            /\ ~Exists(TmpPath(json_abs[p]))
            /\ ~Exists(TmpPath(manifest_path)))

\* the last run has succeeded at its own token path, and the document an
\* earlier run published at another token path is still there
C23_Witness ==
  /\ pc[1] = "returned"
  /\ runs = MaxRuns
  /\ \E path \in DOMAIN fs :
       /\ PublishedDocument(path)
       /\ path \notin {json_abs[1], manifest_path}
       /\ Parent(path) # Parent(json_abs[1])

====
